---- MODULE Spec2Model ----
(***************************************************************************)
(* OnScene EMS Whisper service (src/whisper_service/app.py): the request   *)
(* lifecycle around the opaque speech-to-text pipeline: request id         *)
(* middleware, the require_api_key decorator, the /transcribe and          *)
(* /transcribe-text view functions, the temporary file holding the upload  *)
(* and the audit trail.                                                    *)
(*                                                                         *)
(* Strings that the code takes apart or lowers (the Authorization header,  *)
(* the return_timestamps field) are sequences of ASCII characters, each a  *)
(* one-character TLA+ string; the control characters TLA+ has no literal   *)
(* for are written by their names.  Strings that the code only builds or   *)
(* compares are TLA+ strings.                                              *)
(***************************************************************************)
EXTENDS Integers, Sequences, FiniteSets, TLC

VARIABLES ENVIRONMENT,   \* module-level configuration, fixed at start-up
          sink_faulty,   \* requests whose log lines the stream may fail on
          req,           \* per request: inputs, locals and control position
          fs,            \* temporary directory: path -> file or Absent
          audit_trail,   \* the logger sink: sequence of AUDIT entries
          error_log,     \* the logger sink: logger.error messages
          used_ids,      \* request ids handed out by uuid4 so far
          created,       \* history: temp files created per request
          invoked        \* history: Transcriber invocations per request

vars == <<ENVIRONMENT, sink_faulty, req, fs, audit_trail, error_log, used_ids, created,
          invoked>>

(***************************************************************************)
(* Configuration                                                           *)
(***************************************************************************)
MAX_FILE_SIZE_MB == 25
MB == 1024 * 1024
MAX_FILE_SIZE == MAX_FILE_SIZE_MB * MB

\* the configured secret, as one non-whitespace run
API_KEY == <<"s", "k">>

Environments == {"development", "production"}

(***************************************************************************)
(* Bounds and input domains                                                *)
(***************************************************************************)
MaxTextLen == 1

Reqs == {"r1", "r2"}
Uuids == {"u1", "u2"}
Paths == {"/tmp/tmpA.wav", "/tmp/tmpB.wav"}
Endpoints == {"/transcribe", "/transcribe-text"}

hdr(s) == [present |-> TRUE, value |-> s]
NoHeader == [present |-> FALSE, value |-> <<>>]
Headers ==
  { NoHeader,
    \* ""
    hdr(<<>>),
    \* "Bearer"
    hdr(<<"B", "e", "a", "r", "e", "r">>),
    \* "Bearer sk"
    hdr(<<"B", "e", "a", "r", "e", "r", " ", "s", "k">>),
    \* "Bearer \tsk"
    hdr(<<"B", "e", "a", "r", "e", "r", " ", "\t", "s", "k">>),
    \* "bearer sk"
    hdr(<<"b", "e", "a", "r", "e", "r", " ", "s", "k">>),
    \* "BEARER sk"
    hdr(<<"B", "E", "A", "R", "E", "R", " ", "s", "k">>),
    \* "Bearer bad"
    hdr(<<"B", "e", "a", "r", "e", "r", " ", "b", "a", "d">>),
    \* "Bearer skbad"
    hdr(<<"B", "e", "a", "r", "e", "r", " ", "s", "k", "b", "a", "d">>),
    \* "Basic sk"
    hdr(<<"B", "a", "s", "i", "c", " ", "s", "k">>),
    \* "Bearer sk bad"
    hdr(<<"B", "e", "a", "r", "e", "r", " ", "s", "k", " ", "b", "a", "d">>) }

\* request.content_length: NoLength stands for None
NoLength == -1
Lengths == {NoLength, 0, MAX_FILE_SIZE, MAX_FILE_SIZE + 1}

\* request.files.get('audio')
NoAudio == [present |-> FALSE, filename |-> "", data |-> ""]
Audios == { NoAudio,
            [present |-> TRUE, filename |-> "", data |-> ""],
            [present |-> TRUE, filename |-> "call.wav", data |-> "pcm"] }

\* request.form fields
NoField == [present |-> FALSE, value |-> ""]
field(v) == [present |-> TRUE, value |-> v]
\* return_timestamps, the one field the code lowers, as characters
NoFlag == [present |-> FALSE, value |-> <<>>]
Forms == { [language |-> NoField, timestamps |-> NoFlag],
           [language |-> field("spanish"),
            timestamps |-> field(<<"T", "r", "u", "e">>)],
           [language |-> field("spanish"),
            timestamps |-> field(<<"f", "a", "l", "s", "e">>)] }

Inputs ==
  { [endpoint |-> e, header |-> h, content_length |-> n, audio |-> a,
     language |-> f.language, timestamps |-> f.timestamps] :
      e \in Endpoints, h \in Headers, n \in Lengths, a \in Audios,
      f \in Forms }

RECURSIVE TextsOfLen(_)
TextsOfLen(n) ==
  IF n = 0 THEN {""}
  ELSE {t \o c : t \in TextsOfLen(n - 1), c \in {"a", "b"}}
Texts == UNION {TextsOfLen(n) : n \in 0..MaxTextLen}

\* what the speech pipeline does with a readable file: text, or an exception
PipeOutcomes == [raises : {FALSE}, text : Texts, error : {""}]
                  \cup [raises : {TRUE}, text : {""}, error : {"model error"}]

IsoNow == "<iso8601>"

(***************************************************************************)
(* String helpers                                                          *)
(***************************************************************************)
\* a string is the sequence of its characters (ASCII)
UpperCase == <<"A", "B", "C", "D", "E", "F", "G", "H", "I", "J", "K", "L", "M",
              "N", "O", "P", "Q", "R", "S", "T", "U", "V", "W", "X", "Y", "Z">>
LowerCase == <<"a", "b", "c", "d", "e", "f", "g", "h", "i", "j", "k", "l", "m",
              "n", "o", "p", "q", "r", "s", "t", "u", "v", "w", "x", "y", "z">>

\* str.lower() on one character
LowerChar(c) ==
  IF \E i \in 1..Len(UpperCase) : UpperCase[i] = c
  THEN LowerCase[CHOOSE i \in 1..Len(UpperCase) : UpperCase[i] = c]
  ELSE c

\* str.lower()
Lower(w) == [i \in 1..Len(w) |-> LowerChar(w[i])]

\* the ASCII characters c with c.isspace(): space, \t, \n, \r, \f, and
\* 0x0b, 0x1c, 0x1d, 0x1e, 0x1f by name
Whitespace ==
  {" ", "\t", "\n", "\r", "\f", "<VT>", "<FS>", "<GS>", "<RS>", "<US>"}

\* str.split(): the maximal runs of non-whitespace characters
RECURSIVE SplitRec(_, _, _)
SplitRec(s, cur, acc) ==
  IF s = <<>> THEN (IF cur = <<>> THEN acc ELSE Append(acc, cur))
  ELSE IF Head(s) \in Whitespace
       THEN SplitRec(Tail(s), <<>>, IF cur = <<>> THEN acc ELSE Append(acc, cur))
       ELSE SplitRec(Tail(s), Append(cur, Head(s)), acc)

Split(s) == SplitRec(s, <<>>, <<>>)

(***************************************************************************)
(* Return values of view functions                                         *)
(***************************************************************************)
\* jsonify(body), status   (a tuple)
Tuple(body, status) == [tuple |-> TRUE, status |-> status, body |-> body]
\* jsonify(body)           (a Response, status 200)
Jsonify(body) == [tuple |-> FALSE, status |-> 200, body |-> body]
NoReturn == [tuple |-> FALSE, status |-> 0, body |-> [none |-> TRUE]]

ErrorBody(msg) == [success |-> FALSE, error |-> msg]
FaultBody(msg) == [success |-> FALSE, error |-> msg, timestamp |-> IsoNow]

NoPath == ""
Absent == [exists |-> FALSE, data |-> ""]
File(d) == [exists |-> TRUE, data |-> d]
NoResult == [none |-> TRUE]
NoPipe == [raises |-> FALSE, text |-> "", error |-> "<not run>"]

(***************************************************************************)
(* audit_log                                                               *)
(***************************************************************************)
AuditEntry(event_type, details, request_id) ==
  [timestamp |-> IsoNow, event_type |-> event_type, details |-> details,
   request_id |-> request_id]

\* one line written through the StreamHandler that logging.basicConfig puts
\* on sys.stderr (line 18).  sink is what the stream does with the write:
\*   "written"  the line is in the log;
\*   "EIO"      the write raises OSError: Handler.handleError reports on
\*              sys.stderr under `except OSError: pass`, the line is lost and
\*              nothing is raised;
\*   "closed"   the write raises ValueError (closed stream): handleError's
\*              own write raises it again and it leaves the logger call.
StreamHandlerEmit(log, line, sink) ==
  [trail  |-> IF sink = "written" THEN Append(log, line) ELSE log,
   raised |-> sink = "closed"]

\* trail: the audit trail after the call; raised: whether the call raised
audit_log(trail, event_type, details, request_id, sink) ==
  StreamHandlerEmit(trail, AuditEntry(event_type, details, request_id), sink)

(***************************************************************************)
(* require_api_key: the decision of the decorator for one header           *)
(***************************************************************************)
\* token_compared: whether `token != API_KEY` was evaluated (line 59)
Granted(compared) ==
  [ok |-> TRUE, details |-> "", error |-> "", token_compared |-> compared]
Denied(details, error, compared) ==
  [ok |-> FALSE, details |-> details, error |-> error,
   token_compared |-> compared]
NoDecision == [ok |-> FALSE, details |-> "<none>", error |-> "<none>",
               token_compared |-> FALSE]

\* the scheme compared without .lower()
SchemeOk_exact(scheme) == scheme = <<"B", "e", "a", "r", "e", "r">>

\* scheme.lower() != 'bearer', negated
SchemeOk(scheme) == Lower(scheme) = <<"b", "e", "a", "r", "e", "r">>

\* the token compared with startswith
TokenOk_prefix(token) ==
  Len(token) >= Len(API_KEY) /\ SubSeq(token, 1, Len(API_KEY)) = API_KEY

\* token != API_KEY, negated
TokenOk(token) == token = API_KEY

\* the development switch compared with the wrong literal
SkipAuth_dev(environment) == environment = "dev"

\* ENVIRONMENT == 'development', line 45
SkipAuth(environment) == environment = "development"

\* the decorator with `and` for `or` on line 59
require_api_key_and(environment, auth_header) ==
  IF SkipAuth(environment) THEN Granted(FALSE)
  ELSE IF ~auth_header.present \/ auth_header.value = <<>>
       THEN Denied("Missing authorization header", "Authorization required",
                   FALSE)
  ELSE LET parts == Split(auth_header.value) IN
       IF Len(parts) # 2
       THEN Denied("Malformed authorization header",
                   "Invalid authorization format", FALSE)
       ELSE IF ~SchemeOk(parts[1]) /\ ~TokenOk(parts[2])
            THEN Denied("Invalid API key", "Invalid authorization", TRUE)
            ELSE Granted(TRUE)

require_api_key(environment, auth_header) ==
  IF SkipAuth(environment) THEN Granted(FALSE)
  ELSE IF ~auth_header.present \/ auth_header.value = <<>>
       THEN Denied("Missing authorization header", "Authorization required",
                   FALSE)
  ELSE LET parts == Split(auth_header.value) IN
       IF Len(parts) # 2
       THEN Denied("Malformed authorization header",
                   "Invalid authorization format", FALSE)
       ELSE IF ~SchemeOk(parts[1])
            THEN Denied("Invalid API key", "Invalid authorization", FALSE)
       ELSE IF ~TokenOk(parts[2])
            THEN Denied("Invalid API key", "Invalid authorization", TRUE)
            ELSE Granted(TRUE)

(***************************************************************************)
(* transcribe: request validation (size check, audio part, form fields)    *)
(***************************************************************************)
TooLarge(content_length) ==
  content_length # NoLength /\ content_length # 0
    /\ content_length > MAX_FILE_SIZE

TooLargeError ==
  "File too large. Maximum size is " \o ToString(MAX_FILE_SIZE \div MB)
    \o ".0MB"

\* the audio part checked before the declared size
Validate_audio_first(in) ==
  IF ~in.audio.present THEN "no_audio"
  ELSE IF in.audio.filename = "" THEN "no_filename"
  ELSE IF TooLarge(in.content_length) THEN "too_large"
  ELSE "ok"

\* the empty-filename check left out
Validate_any_filename(in) ==
  IF TooLarge(in.content_length) THEN "too_large"
  ELSE IF ~in.audio.present THEN "no_audio"
  ELSE "ok"

Validate(in) ==
  IF TooLarge(in.content_length) THEN "too_large"
  ELSE IF ~in.audio.present THEN "no_audio"
  ELSE IF in.audio.filename = "" THEN "no_filename"
  ELSE "ok"

FormGet(f, default) == IF f.present THEN f.value ELSE default

LanguageOf(in) == FormGet(in.language, "english")
ReturnTimestampsOf(in) ==
  Lower(FormGet(in.timestamps, <<"t", "r", "u", "e">>)) = <<"t", "r", "u", "e">>

(***************************************************************************)
(* WhisperService.transcribe_audio around the opaque pipeline              *)
(***************************************************************************)
ChunksOf(text) ==
  IF text = "" THEN <<>> ELSE <<[text |-> text, start |-> 0, end |-> Len(text)]>>

\* self.pipe(audio_path, ...) when it returns
PipeResult(text, return_timestamps) ==
  [text |-> text, has_chunks |-> return_timestamps,
   chunks |-> IF return_timestamps THEN ChunksOf(text) ELSE <<>>]

FailureResult(error) ==
  [success |-> FALSE, error |-> error, timestamp |-> IsoNow]

SuccessResult(p, return_timestamps) ==
  [success |-> TRUE, text |-> p.text,
   chunks |-> IF return_timestamps
              THEN (IF p.has_chunks THEN p.chunks ELSE <<>>)
              ELSE <<>>,
   timestamp |-> IsoNow]

NoSuchFile(path) == "[Errno 2] No such file or directory: '" \o path \o "'"

transcribe_audio(file, audio_path, outcome, return_timestamps) ==
  IF ~file.exists THEN FailureResult(NoSuchFile(audio_path))
  ELSE IF outcome.raises THEN FailureResult(outcome.error)
  ELSE SuccessResult(PipeResult(outcome.text, return_timestamps),
                     return_timestamps)

\* the terminal audit event of transcribe for a Transcriber result
OutcomeEvent(result) ==
  IF result.success THEN "TRANSCRIPTION_SUCCESS" ELSE "TRANSCRIPTION_FAILED"

\* the success detail quoting the transcribed text
OutcomeDetails_text(result) ==
  IF result.success
  THEN "Transcription completed, text: " \o result.text
  ELSE "Transcription failed: " \o result.error

OutcomeDetails(result) ==
  IF result.success
  THEN "Transcription completed, text length: " \o ToString(Len(result.text))
  ELSE "Transcription failed: " \o result.error

(***************************************************************************)
(* The temporary directory                                                 *)
(***************************************************************************)
\* os.path.exists(path)
os_path_exists(files, path) == files[path].exists

\* os.unlink(path) that leaves the file in place
os_unlink_keeps(files, path) == files

\* os.unlink(path) on an existing file
os_unlink(files, path) == [files EXCEPT ![path] = Absent]

(***************************************************************************)
(* transcribe_text_only: what it returns for the value transcribe() gave   *)
(***************************************************************************)
\* the projection applied to every Response, failed or not
TextOnly_always(result) ==
  IF result.tuple THEN result
  ELSE Jsonify([text |-> IF result.body.success THEN result.body.text ELSE "",
                success |-> TRUE])

TextOnly(result) ==
  IF result.tuple THEN result
  ELSE IF result.body.success
       THEN Jsonify([text |-> result.body.text, success |-> TRUE])
       ELSE result

(***************************************************************************)
(* Requests                                                                *)
(***************************************************************************)
DefaultInput ==
  [endpoint |-> "/transcribe", header |-> NoHeader,
   content_length |-> NoLength, audio |-> NoAudio, language |-> NoField,
   timestamps |-> NoFlag]

IdleReq ==
  [pc |-> "idle", in |-> DefaultInput, request_id |-> "unknown",
   inner |-> FALSE, gate |-> NoDecision, language |-> "", return_timestamps |-> FALSE,
   temp_path |-> NoPath, read |-> Absent, pipe |-> NoPipe, fault |-> "none",
   result |-> NoResult, exc |-> "", ret |-> NoReturn, response |-> NoReturn]

\* a return statement of transcribe: to transcribe_text_only when that is
\* the caller, to the HTTP layer otherwise
Return(rq, value) ==
  IF rq.inner THEN [rq EXCEPT !.pc = "project", !.ret = value]
  ELSE [rq EXCEPT !.pc = "done", !.ret = value, !.response = value]

\* Flask's answer to an exception no view function has caught
InternalServerError ==
  [tuple |-> FALSE, status |-> 500, body |-> [html |-> "Internal Server Error"]]

\* an exception leaving transcribe or its decorator: caught by
\* transcribe_text_only when that is the caller (lines 254-258), by Flask
\* otherwise
Escapes(rq, msg) ==
  IF rq.inner
  THEN [rq EXCEPT !.pc = "done", !.exc = msg,
                  !.response = Tuple(ErrorBody(msg), 500)]
  ELSE [rq EXCEPT !.pc = "done", !.exc = msg,
                  !.response = InternalServerError]

\* str(e) of the ValueError of a closed stream
SinkError == "I/O operation on closed file."

\* what the log stream may do with a line written for request r
SinkOk(r) ==
  IF r \in sink_faulty THEN {"written", "EIO", "closed"} ELSE {"written"}

Init ==
  /\ ENVIRONMENT \in Environments
  /\ sink_faulty = {}
  /\ req = [r \in Reqs |-> IdleReq]
  /\ fs = [p \in Paths |-> Absent]
  /\ audit_trail = <<>>
  /\ error_log = <<>>
  /\ used_ids = {}
  /\ created = [r \in Reqs |-> 0]
  /\ invoked = [r \in Reqs |-> 0]

\* a request identifier drawn without regard to the ones handed out
before_request_shared(r, in) ==
  /\ req[r].pc = "idle"
  /\ \E u \in Uuids :
       /\ req' = [req EXCEPT ![r] = [IdleReq EXCEPT !.pc = "gate", !.in = in,
                                                    !.request_id = u]]
       /\ used_ids' = used_ids \cup {u}
  /\ UNCHANGED <<ENVIRONMENT, sink_faulty, fs, audit_trail, error_log, created,
                 invoked>>

\* a request is received: before_request gives it a fresh uuid4
before_request(r, in) ==
  /\ req[r].pc = "idle"
  /\ \E u \in Uuids \ used_ids :
       /\ req' = [req EXCEPT ![r] = [IdleReq EXCEPT !.pc = "gate", !.in = in,
                                                    !.request_id = u]]
       /\ used_ids' = used_ids \cup {u}
  /\ UNCHANGED <<ENVIRONMENT, sink_faulty, fs, audit_trail, error_log, created, invoked>>

\* decorated_function of require_api_key, around either view function
AuthGate(r) ==
  LET rq == req[r]
      d  == require_api_key(ENVIRONMENT, rq.in.header)
  IN
  /\ rq.pc = "gate"
  /\ IF d.ok
     THEN /\ req' = [req EXCEPT ![r] =
                 IF rq.in.endpoint = "/transcribe-text" /\ ~rq.inner
                 THEN [rq EXCEPT !.inner = TRUE, !.gate = d]
                 ELSE [rq EXCEPT !.pc = "started", !.gate = d]]
          /\ UNCHANGED audit_trail
     ELSE \E ok, again \in SinkOk(r) :
            LET a == audit_log(audit_trail, "AUTH_FAILED", d.details,
                               rq.request_id, ok)
                \* line 60 is inside the try of line 57: the ValueError of
                \* a closed stream is caught by `except ValueError`, line 65
                caught == a.raised /\ d.details = "Invalid API key"
                b == audit_log(a.trail, "AUTH_FAILED",
                               "Malformed authorization header",
                               rq.request_id, again)
            IN IF caught
               THEN /\ audit_trail' = b.trail
                    /\ req' = [req EXCEPT ![r] =
                          IF b.raised
                          THEN Escapes([rq EXCEPT !.gate = d], SinkError)
                          ELSE Return([rq EXCEPT !.gate = d],
                                 Tuple(ErrorBody("Invalid authorization format"),
                                       401))]
               ELSE /\ again = "written"
                    /\ audit_trail' = a.trail
                    /\ req' = [req EXCEPT ![r] =
                          IF a.raised
                          THEN Escapes([rq EXCEPT !.gate = d], SinkError)
                          ELSE Return([rq EXCEPT !.gate = d],
                                      Tuple(ErrorBody(d.error), 401))]
  /\ UNCHANGED <<ENVIRONMENT, sink_faulty, fs, error_log, used_ids, created, invoked>>

\* transcribe entered without recording TRANSCRIPTION_STARTED
Started_silent(r) ==
  /\ req[r].pc = "started"
  /\ req' = [req EXCEPT ![r].pc = "validate"]
  /\ UNCHANGED <<ENVIRONMENT, sink_faulty, fs, audit_trail, error_log, used_ids,
                 created, invoked>>

\* transcribe, line 170
Started(r) ==
  /\ req[r].pc = "started"
  /\ \E ok \in SinkOk(r) :
       LET a == audit_log(audit_trail, "TRANSCRIPTION_STARTED",
                          "Audio transcription request received",
                          req[r].request_id, ok)
       IN /\ audit_trail' = a.trail
          /\ req' = [req EXCEPT ![r] =
                IF a.raised THEN Escapes(req[r], SinkError)
                ELSE [req[r] EXCEPT !.pc = "validate"]]
  /\ UNCHANGED <<ENVIRONMENT, sink_faulty, fs, error_log, used_ids, created, invoked>>

\* transcribe, lines 173-197
CheckRequest(r) ==
  LET rq == req[r]
      v  == Validate(rq.in)
  IN
  /\ rq.pc = "validate"
  /\ CASE v = "too_large" ->
            \E ok \in SinkOk(r) :
              LET a == audit_log(audit_trail, "TRANSCRIPTION_FAILED",
                         "File too large: " \o ToString(rq.in.content_length)
                           \o " bytes", rq.request_id, ok)
              IN /\ audit_trail' = a.trail
                 /\ req' = [req EXCEPT ![r] =
                       IF a.raised
                       THEN [rq EXCEPT !.pc = "outer_except", !.exc = SinkError]
                       ELSE Return(rq, Tuple(ErrorBody(TooLargeError), 413))]
       [] v = "no_audio" ->
            /\ req' = [req EXCEPT ![r] =
                 Return(rq, Tuple(ErrorBody("No audio file provided"), 400))]
            /\ UNCHANGED audit_trail
       [] v = "no_filename" ->
            /\ req' = [req EXCEPT ![r] =
                 Return(rq, Tuple(ErrorBody("No audio file selected"), 400))]
            /\ UNCHANGED audit_trail
       [] OTHER ->
            /\ req' = [req EXCEPT ![r] =
                 [rq EXCEPT !.pc = "create",
                            !.language = LanguageOf(rq.in),
                            !.return_timestamps = ReturnTimestampsOf(rq.in)]]
            /\ UNCHANGED audit_trail
  /\ UNCHANGED <<ENVIRONMENT, sink_faulty, fs, error_log, used_ids, created, invoked>>

\* the upload written under a name that another request may be using
CreateTemp_shared(r) ==
  LET rq == req[r] IN
  /\ rq.pc = "create"
  /\ \/ \E p \in Paths :
          /\ fs' = [fs EXCEPT ![p] = File("")]
          /\ created' = [created EXCEPT ![r] = @ + 1]
          /\ req' = [req EXCEPT ![r] = [rq EXCEPT !.pc = "save",
                                                  !.temp_path = p]]
     \/ /\ req' = [req EXCEPT ![r] =
             [rq EXCEPT !.pc = "outer_except", !.fault = "create",
                        !.exc = "[Errno 28] No space left on device"]]
        /\ UNCHANGED <<fs, created>>
  /\ UNCHANGED <<ENVIRONMENT, sink_faulty, audit_trail, error_log, used_ids,
                 invoked>>

\* tempfile.NamedTemporaryFile(delete=False, suffix='.wav'), line 200: the
\* file is created exclusively under a random name, which is neither the
\* name of an existing file nor a name handed out before
CreateTemp(r) ==
  LET rq == req[r] IN
  /\ rq.pc = "create"
  /\ \/ \E p \in Paths :
          /\ ~fs[p].exists
          /\ \A q \in Reqs : req[q].temp_path # p
          /\ fs' = [fs EXCEPT ![p] = File("")]
          /\ created' = [created EXCEPT ![r] = @ + 1]
          /\ req' = [req EXCEPT ![r] = [rq EXCEPT !.pc = "save",
                                                  !.temp_path = p]]
     \/ /\ req' = [req EXCEPT ![r] =
             [rq EXCEPT !.pc = "outer_except", !.fault = "create",
                        !.exc = "[Errno 28] No space left on device"]]
        /\ UNCHANGED <<fs, created>>
  /\ UNCHANGED <<ENVIRONMENT, sink_faulty, audit_trail, error_log, used_ids, invoked>>

\* the temporary file opened with delete=True: closing it removes it
SaveUpload_delete_on_close(r) ==
  LET rq == req[r] IN
  /\ rq.pc = "save"
  /\ \/ /\ fs' = [fs EXCEPT ![rq.temp_path] = Absent]
        /\ req' = [req EXCEPT ![r].pc = "invoke"]
     \/ /\ req' = [req EXCEPT ![r] =
             [rq EXCEPT !.pc = "outer_except", !.fault = "save",
                        !.exc = "[Errno 28] No space left on device"]]
        /\ UNCHANGED fs
  /\ UNCHANGED <<ENVIRONMENT, sink_faulty, audit_trail, error_log, used_ids, created,
                 invoked>>

\* audio_file.save(temp_file.name), lines 201-202
SaveUpload(r) ==
  LET rq == req[r] IN
  /\ rq.pc = "save"
  /\ \/ /\ fs' = [fs EXCEPT ![rq.temp_path] = File(rq.in.audio.data)]
        /\ req' = [req EXCEPT ![r].pc = "invoke"]
     \/ /\ req' = [req EXCEPT ![r] =
             [rq EXCEPT !.pc = "outer_except", !.fault = "save",
                        !.exc = "[Errno 28] No space left on device"]]
        /\ UNCHANGED fs
  /\ UNCHANGED <<ENVIRONMENT, sink_faulty, audit_trail, error_log, used_ids, created,
                 invoked>>

\* whisper_service.transcribe_audio(temp_path, ...) is entered, line 206
InvokeTranscriber(r) ==
  LET rq == req[r] IN
  /\ rq.pc = "invoke"
  /\ invoked' = [invoked EXCEPT ![r] = @ + 1]
  /\ req' = [req EXCEPT ![r] = [rq EXCEPT !.pc = "transcribing",
                                          !.read = fs[rq.temp_path]]]
  /\ UNCHANGED <<ENVIRONMENT, sink_faulty, fs, audit_trail, error_log, used_ids, created>>

\* transcribe_audio returns its result dictionary, lines 137-150
TranscriberReturns(r) ==
  LET rq == req[r] IN
  /\ rq.pc = "transcribing"
  /\ \E o \in PipeOutcomes, ok \in SinkOk(r) :
       LET result == transcribe_audio(rq.read, rq.temp_path, o,
                                      rq.return_timestamps)
           ran == [rq EXCEPT !.pipe = IF rq.read.exists THEN o ELSE NoPipe]
           \* logger.error in the except branch, line 145
           e == StreamHandlerEmit(error_log,
                  "Transcription error: " \o result.error, ok)
       IN IF result.success
          THEN /\ ok = "written"
               /\ req' = [req EXCEPT ![r] =
                     [ran EXCEPT !.pc = "unlink", !.result = result]]
               /\ UNCHANGED error_log
          ELSE /\ error_log' = e.trail
               /\ req' = [req EXCEPT ![r] =
                     IF e.raised
                     THEN [ran EXCEPT !.pc = "inner_except", !.exc = SinkError]
                     ELSE [ran EXCEPT !.pc = "unlink", !.result = result]]
  /\ UNCHANGED <<ENVIRONMENT, sink_faulty, fs, audit_trail, used_ids, created,
                 invoked>>

\* os.unlink(temp_path), line 213
Unlink(r) ==
  LET rq == req[r] IN
  /\ rq.pc = "unlink"
  /\ IF os_path_exists(fs, rq.temp_path)
     THEN /\ fs' = os_unlink(fs, rq.temp_path)
          /\ req' = [req EXCEPT ![r].pc = "audit_end"]
     ELSE /\ req' = [req EXCEPT ![r] =
               [rq EXCEPT !.pc = "inner_except", !.fault = "unlink",
                          !.exc = NoSuchFile(rq.temp_path)]]
          /\ UNCHANGED fs
  /\ UNCHANGED <<ENVIRONMENT, sink_faulty, audit_trail, error_log, used_ids, created,
                 invoked>>

\* the terminal audit event recorded for successes only
AuditOutcome_success_only(r) ==
  LET rq == req[r] IN
  /\ rq.pc = "audit_end"
  /\ \E ok \in SinkOk(r) :
       LET a == audit_log(audit_trail, OutcomeEvent(rq.result),
                          OutcomeDetails(rq.result), rq.request_id, ok)
       IN /\ audit_trail' = IF rq.result.success THEN a.trail ELSE audit_trail
          /\ req' = [req EXCEPT ![r] =
                IF a.raised /\ rq.result.success
                THEN [rq EXCEPT !.pc = "inner_except", !.exc = SinkError]
                ELSE [rq EXCEPT !.pc = "jsonify"]]
  /\ UNCHANGED <<ENVIRONMENT, sink_faulty, fs, error_log, used_ids, created, invoked>>

\* the terminal audit event, lines 215-218
AuditOutcome(r) ==
  LET rq == req[r] IN
  /\ rq.pc = "audit_end"
  /\ \E ok \in SinkOk(r) :
       LET a == audit_log(audit_trail, OutcomeEvent(rq.result),
                          OutcomeDetails(rq.result), rq.request_id, ok)
       IN /\ audit_trail' = a.trail
          /\ req' = [req EXCEPT ![r] =
                IF a.raised
                THEN [rq EXCEPT !.pc = "inner_except", !.exc = SinkError]
                ELSE [rq EXCEPT !.pc = "jsonify"]]
  /\ UNCHANGED <<ENVIRONMENT, sink_faulty, fs, error_log, used_ids, created, invoked>>

\* return jsonify(result), line 220: a failure result holds a bool and two
\* strings and always serializes; what the pipeline put into a success
\* result may not
JsonifyResult(r) ==
  LET rq == req[r] IN
  /\ rq.pc = "jsonify"
  /\ \/ req' = [req EXCEPT ![r] = Return(rq, Jsonify(rq.result))]
     \/ /\ rq.result.success
        /\ req' = [req EXCEPT ![r] =
             [rq EXCEPT !.pc = "inner_except", !.fault = "jsonify",
                        !.exc = "Object is not JSON serializable"]]
  /\ UNCHANGED <<ENVIRONMENT, sink_faulty, fs, audit_trail, error_log, used_ids, created,
                 invoked>>

\* except Exception as e: ... raise e, lines 222-226, in two steps: the
\* test of line 224 (pc inner_except), then the os.unlink of line 225 (pc
\* inner_unlink), which raises in place of e when the file is gone by then
InnerExcept(r) ==
  LET rq == req[r] IN
  /\ rq.pc \in {"inner_except", "inner_unlink"}
  /\ IF rq.pc = "inner_except"
     THEN /\ req' = [req EXCEPT ![r].pc =
                 IF os_path_exists(fs, rq.temp_path)
                 THEN "inner_unlink" ELSE "outer_except"]
          /\ UNCHANGED fs
     ELSE IF os_path_exists(fs, rq.temp_path)
          THEN /\ fs' = os_unlink(fs, rq.temp_path)
               /\ req' = [req EXCEPT ![r].pc = "outer_except"]
          ELSE /\ req' = [req EXCEPT ![r] =
                    [rq EXCEPT !.pc = "outer_except",
                               !.exc = NoSuchFile(rq.temp_path)]]
               /\ UNCHANGED fs
  /\ UNCHANGED <<ENVIRONMENT, sink_faulty, audit_trail, error_log, used_ids, created,
                 invoked>>

\* the last-resort handler answering without a log entry
OuterExcept_silent(r) ==
  LET rq == req[r] IN
  /\ rq.pc = "outer_except"
  /\ req' = [req EXCEPT ![r] = Return(rq, Tuple(FaultBody(rq.exc), 500))]
  /\ UNCHANGED <<ENVIRONMENT, sink_faulty, fs, audit_trail, error_log, used_ids, created,
                 invoked>>

\* except Exception as e: ... 500, lines 228-234
OuterExcept(r) ==
  LET rq == req[r] IN
  /\ rq.pc = "outer_except"
  /\ \E ok \in SinkOk(r) :
       LET e == StreamHandlerEmit(error_log,
                  "Transcription endpoint error: " \o rq.exc, ok)
       IN /\ error_log' = e.trail
          /\ req' = [req EXCEPT ![r] =
                IF e.raised THEN Escapes(rq, SinkError)
                ELSE Return(rq, Tuple(FaultBody(rq.exc), 500))]
  /\ UNCHANGED <<ENVIRONMENT, sink_faulty, fs, audit_trail, used_ids, created, invoked>>

\* transcribe_text_only calling transcribe() a second time for the text
transcribe_text_only_twice(r) ==
  LET rq == req[r] IN
  /\ rq.pc = "project"
  /\ req' = [req EXCEPT ![r] =
               IF ~rq.ret.tuple /\ invoked[r] < 2
               THEN [rq EXCEPT !.pc = "gate"]
               ELSE [rq EXCEPT !.pc = "done", !.response = TextOnly(rq.ret)]]
  /\ UNCHANGED <<ENVIRONMENT, sink_faulty, fs, audit_trail, error_log, used_ids, created,
                 invoked>>

\* transcribe_text_only after transcribe() has returned, lines 242-252
transcribe_text_only(r) ==
  LET rq == req[r] IN
  /\ rq.pc = "project"
  /\ req' = [req EXCEPT ![r] =
               [rq EXCEPT !.pc = "done", !.response = TextOnly(rq.ret)]]
  /\ UNCHANGED <<ENVIRONMENT, sink_faulty, fs, audit_trail, error_log, used_ids, created,
                 invoked>>

\* the steps of a request that has been received
Handle(r) ==
  \/ AuthGate(r)
  \/ Started(r)
  \/ CheckRequest(r)
  \/ CreateTemp(r)
  \/ SaveUpload(r)
  \/ InvokeTranscriber(r)
  \/ TranscriberReturns(r)
  \/ Unlink(r)
  \/ AuditOutcome(r)
  \/ JsonifyResult(r)
  \/ InnerExcept(r)
  \/ OuterExcept(r)
  \/ transcribe_text_only(r)

AllIdle == \A q \in Reqs : req[q].pc = "idle"

\* one request, any input, handled from receipt to response
Receive == \E in \in Inputs : AllIdle /\ before_request("r1", in)

Next == Receive \/ \E r \in Reqs : Handle(r)

Spec == Init /\ [][Next]_vars

\* the temporary directory is shared with the rest of the machine: a file
\* of a request in flight may be removed from outside the service
ExternalRemove ==
  /\ \E r \in Reqs :
       /\ req[r].pc \in {"save", "invoke", "transcribing", "unlink",
                         "inner_except", "inner_unlink"}
       /\ os_path_exists(fs, req[r].temp_path)
       /\ fs' = os_unlink(fs, req[r].temp_path)
  /\ UNCHANGED <<ENVIRONMENT, sink_faulty, req, audit_trail, error_log, used_ids, created,
                 invoked>>

NextGone == Next \/ ExternalRemove

SpecGone == Init /\ [][NextGone]_vars

\* the same input sent to /transcribe and then to /transcribe-text
ReceiveFull ==
  \E in \in Inputs :
    in.endpoint = "/transcribe" /\ AllIdle /\ before_request("r1", in)

Replay ==
  /\ req["r1"].pc = "done"
  /\ before_request("r2", [req["r1"].in EXCEPT !.endpoint = "/transcribe-text"])

\* the replayed request meets the Transcriber outcome and the faults that
\* the first request met; for requests whose log stream takes every line
Mirrors(a, b) ==
  /\ b.fault \in {"none", a.fault}
  /\ b.pipe \in {NoPipe, a.pipe}
  /\ a.fault = "create" => b.pc # "save"
  /\ a.fault = "save" => b.pc # "invoke"
  /\ a.fault = "jsonify" => ~(b.pc \in {"project", "done"} /\ b.fault = "none")
  /\ b.pc \in {"audit_end", "jsonify", "project", "done"} /\ b.fault = "none"
       /\ b.result # NoResult
       => b.pipe = a.pipe

HandlePair ==
  \E r \in Reqs : Handle(r) /\ (r = "r2" => Mirrors(req'["r1"], req'["r2"]))

NextPair == ReceiveFull \/ Replay \/ HandlePair

SpecPair == Init /\ [][NextPair]_vars

\* requests handled concurrently, one per worker thread, in any interleaving
ConcInput(e, h, n, d) ==
  [endpoint |-> e, header |-> hdr(h), content_length |-> n,
   audio |-> [present |-> TRUE, filename |-> "call.wav", data |-> d],
   language |-> NoField, timestamps |-> NoFlag]

\* each client uploads its own recording
ConcInputs(r) ==
  { ConcInput("/transcribe", <<"B", "e", "a", "r", "e", "r", " ", "s", "k">>, 0, "pcm of " \o r),
    ConcInput("/transcribe-text", <<"B", "e", "a", "r", "e", "r", " ", "s", "k">>, 0, "pcm of " \o r),
    ConcInput("/transcribe", <<"B", "e", "a", "r", "e", "r", " ", "b", "a", "d">>, 0, "pcm of " \o r),
    ConcInput("/transcribe", <<"B", "e", "a", "r", "e", "r", " ", "s", "k">>, MAX_FILE_SIZE + 1,
              "pcm of " \o r) }

ReceiveAny == \E r \in Reqs : \E in \in ConcInputs(r) : before_request(r, in)

NextConc == ReceiveAny \/ \E r \in Reqs : Handle(r)

SpecConc == Init /\ [][NextConc]_vars

\* the same request sent again with another recording of the same size,
\* for which the speech pipeline may produce another text of the same length
OtherBytes(audio) ==
  IF audio.present THEN [audio EXCEPT !.data = @ \o "'"] ELSE audio

ReplayOther ==
  /\ req["r1"].pc = "done"
  /\ before_request("r2", [req["r1"].in EXCEPT !.audio = OtherBytes(@)])

\* what of a pipeline outcome is not content
Shape(pipe) ==
  [raises |-> pipe.raises, length |-> Len(pipe.text), error |-> pipe.error]

MirrorsShape(a, b) ==
  /\ b.fault \in {"none", a.fault}
  /\ Shape(b.pipe) \in {Shape(NoPipe), Shape(a.pipe)}
  /\ a.fault = "create" => b.pc # "save"
  /\ a.fault = "save" => b.pc # "invoke"
  /\ a.fault = "jsonify" => ~(b.pc \in {"project", "done"} /\ b.fault = "none")
  /\ b.pc \in {"audit_end", "jsonify", "project", "done"} /\ b.fault = "none"
       /\ b.result # NoResult
       => Shape(b.pipe) = Shape(a.pipe)

HandleOther ==
  \E r \in Reqs :
    Handle(r) /\ (r = "r2" => MirrorsShape(req'["r1"], req'["r2"]))

NextOther == ReceiveFull \/ ReplayOther \/ HandleOther

SpecOther == Init /\ [][NextOther]_vars

\* the log stream may fault on any line written for the second request
InitSink ==
  /\ ENVIRONMENT \in Environments
  /\ sink_faulty = {"r2"}
  /\ req = [r \in Reqs |-> IdleReq]
  /\ fs = [p \in Paths |-> Absent]
  /\ audit_trail = <<>>
  /\ error_log = <<>>
  /\ used_ids = {}
  /\ created = [r \in Reqs |-> 0]
  /\ invoked = [r \in Reqs |-> 0]

\* the same request sent again, now with the faulting stream
ReplaySame ==
  /\ req["r1"].pc = "done"
  /\ before_request("r2", req["r1"].in)

\* requests of both endpoints reaching every logger call
SinkInputs ==
  { in \in Inputs :
      /\ in.header \in {NoHeader, hdr(<<"B", "e", "a", "r", "e", "r", " ", "s", "k">>),
                        hdr(<<"B", "e", "a", "r", "e", "r", " ", "b", "a", "d">>)}
      /\ in.content_length \in {0, MAX_FILE_SIZE + 1}
      /\ ~in.language.present }

ReceiveSink == \E in \in SinkInputs : AllIdle /\ before_request("r1", in)

\* the second request takes whatever course the stream, the pipeline, the
\* file store and the temporary directory give it
NextSink ==
  ReceiveSink \/ ReplaySame \/ (\E r \in Reqs : Handle(r)) \/ ExternalRemove

SpecSink == InitSink /\ [][NextSink]_vars

(***************************************************************************)
(* Properties                                                              *)
(***************************************************************************)
\* the audit entries that carry the request id of request r
EventsOf(r) ==
  SelectSeq(audit_trail, LAMBDA e : e.request_id = req[r].request_id)

EventTypesOf(r) == [i \in 1..Len(EventsOf(r)) |-> EventsOf(r)[i].event_type]

CountOf(r, event_type) ==
  Cardinality({i \in 1..Len(EventsOf(r)) :
                 EventsOf(r)[i].event_type = event_type})

Received(r) == req[r].pc # "idle"
Responded(r) == req[r].pc = "done"

\* the request's temporary file is on disk
TempFileExists(r) ==
  req[r].temp_path # NoPath /\ fs[req[r].temp_path].exists

\* the header is `<scheme> <token>`: two whitespace-separated parts, the
\* scheme being "bearer" in any letter case, the token being the secret
TwoParts(h) == h.present /\ Len(Split(h.value)) = 2
BearerScheme(h) ==
  /\ TwoParts(h)
  /\ LET w == Split(h.value)[1] IN
     /\ Len(w) = 6
     /\ w[1] \in {"b", "B"} /\ w[2] \in {"e", "E"} /\ w[3] \in {"a", "A"}
     /\ w[4] \in {"r", "R"} /\ w[5] \in {"e", "E"} /\ w[6] \in {"r", "R"}
ValidBearer(h) == BearerScheme(h) /\ Split(h.value)[2] = <<"s", "k">>

SizeAcceptable(in) == in.content_length <= MAX_FILE_SIZE
AudioNonEmpty(in) == in.audio.present /\ in.audio.filename # ""
PassesGate(r) == ENVIRONMENT = "development" \/ ValidBearer(req[r].in.header)

\* C1: a request that passed the gate, with an acceptable size and a
\* non-empty audio part, whose Transcriber call returned (success or failure
\* result): when the response is returned its temporary file does not exist.
C1_FileGoneAfterTranscriber ==
  \A r \in Reqs :
    ( /\ Responded(r) /\ PassesGate(r)
      /\ SizeAcceptable(req[r].in) /\ AudioNonEmpty(req[r].in)
      /\ req[r].result # NoResult )
    => (created[r] = 1 /\ ~TempFileExists(r))

C1_Witness ==
  \E r \in Reqs :
    /\ Responded(r) /\ created[r] = 1 /\ req[r].result # NoResult
    /\ ~req[r].result.success /\ req[r].response.status = 200
    /\ ~TempFileExists(r)

\* C2: no response has been returned while the temporary file created for
\* the request still exists, whatever the exit path.
C2_NoFileAtResponse ==
  \A r \in Reqs : (Responded(r) /\ created[r] > 0) => ~TempFileExists(r)

\* C3: outside development, a request the gate denies gets 401, never
\* invokes the Transcriber, never creates a file, and has exactly one audit
\* entry, an AUTH_FAILED, by the time the 401 is returned.
C3_DeniedRequest ==
  \A r \in Reqs :
    ( /\ ENVIRONMENT # "development" /\ Received(r)
      /\ ~ValidBearer(req[r].in.header) )
    => /\ invoked[r] = 0 /\ created[r] = 0
       /\ EventTypesOf(r) \in {<<>>, <<"AUTH_FAILED">>}
       /\ Responded(r) => /\ req[r].response.status = 401
                          /\ EventTypesOf(r) = <<"AUTH_FAILED">>

C3_Witness ==
  \E r \in Reqs :
    /\ ENVIRONMENT # "development" /\ Responded(r)
    /\ req[r].in.endpoint = "/transcribe-text"
    /\ ~ValidBearer(req[r].in.header)
    /\ req[r].response.status = 401
    /\ EventTypesOf(r) = <<"AUTH_FAILED">>

TerminalEvents == {"TRANSCRIPTION_SUCCESS", "TRANSCRIPTION_FAILED"}

\* what the endpoint of request r answers when transcribe() gives `value`
Answer(r, value) ==
  IF req[r].in.endpoint = "/transcribe-text" THEN TextOnly(value) ELSE value

\* C4: when os.unlink fails after the Transcriber returned because the file
\* is already gone, the request still answers 200 with the Transcriber's
\* result and records its terminal audit event.
C4_GoneFileTolerated ==
  \A r \in Reqs :
    (Responded(r) /\ req[r].fault = "unlink" /\ req[r].result # NoResult)
    => /\ req[r].response.status = 200
       /\ req[r].response.body = Answer(r, Jsonify(req[r].result)).body
       /\ CountOf(r, OutcomeEvent(req[r].result)) = 1

\* C5 as stated: outside development every header that is not exactly
\* `Bearer <token>` is denied as malformed (the missing-header message
\* counted as malformed too), and only `Bearer <token>` headers reach the
\* token comparison.
ExactBearerForm(h) ==
  TwoParts(h) /\ Split(h.value)[1] = <<"B", "e", "a", "r", "e", "r">>
MalformedDetails ==
  {"Malformed authorization header", "Missing authorization header"}

C5_NotBearerIsMalformed ==
  \A r \in Reqs :
    (ENVIRONMENT # "development" /\ Responded(r))
    => /\ ~ExactBearerForm(req[r].in.header)
            => /\ req[r].response.status = 401
               /\ Len(EventsOf(r)) = 1
               /\ EventsOf(r)[1].event_type = "AUTH_FAILED"
               /\ EventsOf(r)[1].details \in MalformedDetails
       /\ req[r].gate.token_compared => ExactBearerForm(req[r].in.header)

\* C5 amended: outside development a missing or empty header is denied as
\* "Missing authorization header", a header that does not split into exactly
\* two parts as "Malformed authorization header", a two-part header whose
\* scheme is not "bearer" in any letter case as "Invalid API key" whatever
\* its token; the token is compared exactly for the two-part headers with
\* a bearer scheme in any letter case.
DeniedAs(r, details) ==
  /\ req[r].response.status = 401
  /\ Len(EventsOf(r)) = 1
  /\ EventsOf(r)[1].event_type = "AUTH_FAILED"
  /\ EventsOf(r)[1].details = details

C5_DenialReasons ==
  \A r \in Reqs :
    (ENVIRONMENT # "development" /\ Responded(r))
    => LET h == req[r].in.header IN
       /\ (~h.present \/ h.value = <<>>)
            => DeniedAs(r, "Missing authorization header")
       /\ (h.present /\ h.value # <<>> /\ ~TwoParts(h))
            => DeniedAs(r, "Malformed authorization header")
       /\ (TwoParts(h) /\ ~BearerScheme(h)) => DeniedAs(r, "Invalid API key")
       /\ req[r].gate.token_compared <=> BearerScheme(h)

C5_Witness ==
  \E r \in Reqs :
    /\ ENVIRONMENT # "development" /\ Responded(r)
    /\ req[r].in.header = hdr(<<"B", "a", "s", "i", "c", " ", "s", "k">>)
    /\ DeniedAs(r, "Invalid API key")
    /\ ~req[r].gate.token_compared

\* C6: outside development a `Bearer <token>` header is authorized exactly
\* when the token equals the secret; a different token gets 401 and exactly
\* one AUTH_FAILED entry, with details "Invalid API key".
C6_TokenExactMatch ==
  \A r \in Reqs :
    ( /\ ENVIRONMENT # "development" /\ Responded(r)
      /\ BearerScheme(req[r].in.header) )
    => IF Split(req[r].in.header.value)[2] = <<"s", "k">>
       THEN /\ req[r].response.status # 401
            /\ CountOf(r, "AUTH_FAILED") = 0
            /\ CountOf(r, "TRANSCRIPTION_STARTED") = 1
       ELSE DeniedAs(r, "Invalid API key")

C6_Witness ==
  \E r \in Reqs :
    /\ ENVIRONMENT # "development" /\ Responded(r)
    /\ req[r].in.header = hdr(<<"B", "e", "a", "r", "e", "r", " ", "s", "k", "b", "a", "d">>)
    /\ DeniedAs(r, "Invalid API key")
    /\ req[r].gate.token_compared

\* C7: a request past the gate whose declared length exceeds the maximum
\* gets 413 with a {success: false, error} body, a TRANSCRIPTION_FAILED
\* entry, no temporary file and no Transcriber call, with or without an
\* audio part.
C7_TooLargeRejected ==
  \A r \in Reqs :
    ( /\ Responded(r) /\ PassesGate(r)
      /\ req[r].in.content_length > MAX_FILE_SIZE )
    => /\ req[r].response.status = 413
       /\ DOMAIN req[r].response.body = {"success", "error"}
       /\ req[r].response.body.success = FALSE
       /\ CountOf(r, "TRANSCRIPTION_FAILED") = 1
       /\ created[r] = 0 /\ invoked[r] = 0

C7_Witness ==
  \E r \in Reqs :
    /\ Responded(r) /\ PassesGate(r)
    /\ req[r].in.content_length > MAX_FILE_SIZE
    /\ ~req[r].in.audio.present
    /\ req[r].response.status = 413
    /\ CountOf(r, "TRANSCRIPTION_FAILED") = 1

\* C8: in development every request is authorized whatever its headers and
\* no AUTH_FAILED is recorded: with an acceptable size and a non-empty audio
\* part it reaches the Transcriber unless the temporary file could not be
\* written.  In any other environment only requests with a valid bearer
\* token reach the Transcriber.
C8_DevelopmentBypass ==
  \A r \in Reqs :
    /\ ENVIRONMENT = "development"
         => /\ CountOf(r, "AUTH_FAILED") = 0
            /\ Responded(r) => req[r].response.status # 401
            /\ ( /\ Responded(r) /\ SizeAcceptable(req[r].in)
                 /\ AudioNonEmpty(req[r].in)
                 /\ req[r].fault \notin {"create", "save"} )
               => invoked[r] = 1
    /\ ENVIRONMENT # "development"
         => (invoked[r] > 0 => ValidBearer(req[r].in.header))

C8_Witness ==
  \E r \in Reqs :
    /\ ENVIRONMENT = "development" /\ Responded(r)
    /\ ~req[r].in.header.present
    /\ invoked[r] = 1 /\ req[r].response.status = 200

\* C9: the same input, with the same Transcriber outcome and the same
\* faults, sent to /transcribe (r1) and to /transcribe-text (r2): when
\* /transcribe succeeds, /transcribe-text answers 200 with exactly
\* {success: true, text}; otherwise it answers the same status and body.
SameRun(a, b) ==
  /\ req[a].pipe = req[b].pipe
  /\ req[a].fault = req[b].fault

C9_TextOnlyProjection ==
  ( /\ Responded("r1") /\ Responded("r2") /\ SameRun("r1", "r2")
    /\ req["r1"].in.endpoint = "/transcribe"
    /\ req["r2"].in = [req["r1"].in EXCEPT !.endpoint = "/transcribe-text"] )
  => LET full == req["r1"].response
         text == req["r2"].response
     IN IF full.status = 200 /\ full.body.success
        THEN /\ text.status = 200
             /\ text.body = [success |-> TRUE, text |-> full.body.text]
        ELSE /\ text.status = full.status
             /\ text.body = full.body

C9_Witness ==
  /\ Responded("r1") /\ Responded("r2") /\ SameRun("r1", "r2")
  /\ req["r2"].in = [req["r1"].in EXCEPT !.endpoint = "/transcribe-text"]
  /\ req["r1"].response.status = 200 /\ req["r1"].response.body.success
  /\ req["r1"].response.body.text = "a"
  /\ req["r1"].response.body.chunks # <<>>
  /\ req["r2"].response.body = [success |-> TRUE, text |-> "a"]

\* C10: one /transcribe-text request creates at most one temporary file,
\* invokes the Transcriber at most once and records at most one
\* TRANSCRIPTION_STARTED entry.
C10_PipelineRunsOnce ==
  \A r \in Reqs :
    req[r].in.endpoint = "/transcribe-text"
    => /\ created[r] <= 1 /\ invoked[r] <= 1
       /\ CountOf(r, "TRANSCRIPTION_STARTED") <= 1

C10_Witness ==
  \E r \in Reqs :
    /\ req[r].in.endpoint = "/transcribe-text" /\ Responded(r)
    /\ created[r] = 1 /\ invoked[r] = 1
    /\ CountOf(r, "TRANSCRIPTION_STARTED") = 1
    /\ req[r].response.body = [success |-> TRUE, text |-> "a"]

\* C11: when the speech pipeline raises (a model error, or the audio file
\* cannot be read), transcribe_audio turns the exception into
\* {success: false, error, timestamp}; the request records exactly one
\* TRANSCRIPTION_FAILED entry carrying the error and answers 200 with that
\* body.
ModelCallFaulted(r) == req[r].result # NoResult /\ ~req[r].result.success

C11_ModelFaultIsStructured ==
  \A r \in Reqs :
    (Responded(r) /\ ModelCallFaulted(r))
    => /\ DOMAIN req[r].result = {"success", "error", "timestamp"}
       /\ req[r].response.status = 200
       /\ req[r].response.body = req[r].result
       /\ CountOf(r, "TRANSCRIPTION_FAILED") = 1
       /\ CountOf(r, "TRANSCRIPTION_SUCCESS") = 0
       /\ \E i \in 1..Len(EventsOf(r)) :
            /\ EventsOf(r)[i].event_type = "TRANSCRIPTION_FAILED"
            /\ EventsOf(r)[i].details
                 = "Transcription failed: " \o req[r].result.error

\* C12: a fault raised in the pipeline after the gate (creating, writing or
\* deleting the temporary file, serializing the result) is caught by the
\* handler of transcribe, logged, and answered with 500 and a
\* {success: false, error, timestamp} body.
C12_FaultsAnswered500 ==
  \A r \in Reqs :
    /\ req[r].fault # "none"
         => req[r].pc \in {"inner_except", "inner_unlink", "outer_except",
                          "project", "done"}
    /\ (Responded(r) /\ req[r].fault # "none")
         => /\ req[r].response.status = 500
            /\ req[r].response.body
                 = [success |-> FALSE, error |-> req[r].exc,
                    timestamp |-> IsoNow]
            /\ \E i \in 1..Len(error_log) :
                 error_log[i] = "Transcription endpoint error: " \o req[r].exc

C12_Witness ==
  \E r \in Reqs :
    /\ Responded(r) /\ req[r].fault = "unlink"
    /\ req[r].response.status = 500
    /\ Len(error_log) = 1

\* C13: a request handled while the log stream faults on its audit lines
\* (r2) gets the status and body of the same request handled with a sound
\* stream (r1), same Transcriber outcome and faults: no audit call raises
\* into the request, whichever of AUTH_FAILED, TRANSCRIPTION_STARTED,
\* TRANSCRIPTION_SUCCESS or TRANSCRIPTION_FAILED is being recorded.
C13_SinkFaultSwallowed ==
  ( /\ Responded("r1") /\ Responded("r2") /\ SameRun("r1", "r2")
    /\ req["r2"].in = req["r1"].in
    /\ "r2" \in sink_faulty /\ "r1" \notin sink_faulty )
  => /\ req["r2"].response = req["r1"].response
     /\ req["r2"].exc = req["r1"].exc

\* C14: in the audit trail every TRANSCRIPTION_SUCCESS or
\* TRANSCRIPTION_FAILED entry comes after a TRANSCRIPTION_STARTED entry with
\* the same request id, and a request with a TRANSCRIPTION_STARTED or
\* terminal entry has been authorized by the gate.
StartedBefore(i) ==
  \E j \in 1..(i - 1) :
    /\ audit_trail[j].event_type = "TRANSCRIPTION_STARTED"
    /\ audit_trail[j].request_id = audit_trail[i].request_id

C14_CausalOrder ==
  \A i \in 1..Len(audit_trail) :
    audit_trail[i].event_type \in TerminalEvents \cup {"TRANSCRIPTION_STARTED"}
    => /\ audit_trail[i].event_type \in TerminalEvents => StartedBefore(i)
       /\ \A r \in Reqs :
            req[r].request_id = audit_trail[i].request_id
            => (req[r].gate.ok /\ PassesGate(r))

\* two requests in flight, their entries interleaved in the trail
C14_Witness ==
  /\ Len(audit_trail) = 4
  /\ audit_trail[1].event_type = "TRANSCRIPTION_STARTED"
  /\ audit_trail[2].event_type = "TRANSCRIPTION_STARTED"
  /\ audit_trail[3].event_type = "TRANSCRIPTION_FAILED"
  /\ audit_trail[4].event_type = "TRANSCRIPTION_SUCCESS"
  /\ audit_trail[3].request_id = audit_trail[2].request_id
  /\ audit_trail[4].request_id = audit_trail[1].request_id
  /\ audit_trail[1].request_id # audit_trail[2].request_id

\* C15: every received request holds an identifier of its own before the
\* gate runs, and every audit entry recorded by a step of a request carries
\* that request's identifier: not 'unknown', not another request's.
OwnIdentifiers ==
  \A r \in Reqs :
    Received(r)
    => /\ req[r].request_id \in Uuids
       /\ \A q \in Reqs \ {r} : req[q].request_id # req[r].request_id

EntryOfStepper ==
  audit_trail' # audit_trail
  => /\ Len(audit_trail') = Len(audit_trail) + 1
     /\ \E r \in Reqs :
          /\ req'[r] # req[r]
          /\ \A q \in Reqs \ {r} : req'[q] = req[q]
          /\ audit_trail'[Len(audit_trail')].request_id = req[r].request_id
          /\ req[r].request_id # "unknown"
          /\ \A q \in Reqs \ {r} :
               req[q].request_id # audit_trail'[Len(audit_trail')].request_id

C15_OwnRequestId == [][EntryOfStepper /\ OwnIdentifiers']_vars

\* entries of two requests interleaved, an AUTH_FAILED among them
C15_Witness ==
  /\ Len(audit_trail) >= 3
  /\ \E i, j, k \in 1..Len(audit_trail) :
       /\ i < j /\ j < k
       /\ audit_trail[j].event_type = "AUTH_FAILED"
       /\ audit_trail[i].request_id = audit_trail[k].request_id
       /\ audit_trail[i].request_id # audit_trail[j].request_id
       /\ audit_trail[j].request_id \in Uuids
       /\ audit_trail[i].request_id \in Uuids

\* C16: with requests interleaved in any way, no two requests hold the same
\* file location, the Transcriber of a request reads that request's upload,
\* its file exists while its Transcriber runs, and a file is deleted only by
\* a step of the request that created it.
OwnFiles ==
  \A r \in Reqs :
    /\ req[r].temp_path # NoPath
         => \A q \in Reqs \ {r} : req[q].temp_path # req[r].temp_path
    /\ req[r].pc = "transcribing"
         => /\ TempFileExists(r)
            /\ fs[req[r].temp_path] = File(req[r].in.audio.data)
            /\ req[r].read = File(req[r].in.audio.data)
    /\ invoked[r] > 0 => req[r].read = File(req[r].in.audio.data)

DeletedByOwner ==
  \A p \in Paths :
    (fs[p].exists /\ ~fs'[p].exists)
    => \E r \in Reqs :
         /\ req[r].temp_path = p /\ created[r] = 1
         /\ req'[r] # req[r]
         /\ req[r].pc \in {"unlink", "inner_unlink"}

C16_ExclusiveFiles == [][DeletedByOwner /\ OwnFiles']_vars

\* both Transcribers running at once, each on its own file
C16_Witness ==
  /\ req["r1"].pc = "transcribing" /\ req["r2"].pc = "transcribing"
  /\ req["r1"].temp_path # req["r2"].temp_path
  /\ req["r1"].read.data = "pcm of r1" /\ req["r2"].read.data = "pcm of r2"
  /\ TempFileExists("r1") /\ TempFileExists("r2")

\* C17: two runs of the pipeline that differ only in the uploaded bytes and
\* in the content (not the length) of the text of a successful Transcriber
\* record the same sequence of audit entries, event type and detail.
AuditView(r) ==
  [i \in 1..Len(EventsOf(r)) |->
     <<EventsOf(r)[i].event_type, EventsOf(r)[i].details>>]

SameButContent(a, b) ==
  /\ Responded(a) /\ Responded(b)
  /\ req[a].fault = req[b].fault
  /\ Shape(req[a].pipe) = Shape(req[b].pipe)
  /\ [req[a].in EXCEPT !.audio.data = ""] = [req[b].in EXCEPT !.audio.data = ""]

C17_NoContentInAudit ==
  SameButContent("r1", "r2") => AuditView("r1") = AuditView("r2")

C17_Witness ==
  /\ SameButContent("r1", "r2")
  /\ req["r1"].pipe.text = "a" /\ req["r2"].pipe.text = "b"
  /\ req["r1"].in.audio.data = "pcm" /\ req["r2"].in.audio.data = "pcm'"
  /\ req["r1"].read = File("pcm") /\ req["r2"].read = File("pcm'")
  /\ req["r1"].response.body.text = "a" /\ req["r2"].response.body.text = "b"
  /\ AuditView("r2") =
       << <<"TRANSCRIPTION_STARTED", "Audio transcription request received">>,
          <<"TRANSCRIPTION_SUCCESS", "Transcription completed, text length: 1">> >>
  /\ AuditView("r1") = AuditView("r2")

\* C18: a request past the gate, not over the size ceiling, without an
\* audio part or with an empty filename, gets 400 with a
\* {success: false, error} body ("No audio file provided" when the part is
\* absent), and neither a temporary file nor a Transcriber call.
C18_NoAudioRejected ==
  \A r \in Reqs :
    ( /\ Received(r) /\ PassesGate(r) /\ SizeAcceptable(req[r].in)
      /\ ~AudioNonEmpty(req[r].in) )
    => /\ created[r] = 0 /\ invoked[r] = 0
       /\ Responded(r)
            => /\ req[r].response.status = 400
               /\ DOMAIN req[r].response.body = {"success", "error"}
               /\ req[r].response.body.success = FALSE
               /\ ~req[r].in.audio.present
                    => req[r].response.body.error = "No audio file provided"

C18_Witness ==
  \E r \in Reqs :
    /\ Responded(r) /\ PassesGate(r) /\ SizeAcceptable(req[r].in)
    /\ req[r].in.audio.present /\ req[r].in.audio.filename = ""
    /\ req[r].response.status = 400
    /\ created[r] = 0

TerminalCount(r) ==
  CountOf(r, "TRANSCRIPTION_SUCCESS") + CountOf(r, "TRANSCRIPTION_FAILED")

\* C19 as stated: a request with a TRANSCRIPTION_STARTED entry has exactly
\* one terminal entry (TRANSCRIPTION_SUCCESS or TRANSCRIPTION_FAILED) by the
\* time its response is returned, on every exit path.
C19_ExactlyOneTerminal ==
  \A r \in Reqs :
    (Responded(r) /\ CountOf(r, "TRANSCRIPTION_STARTED") >= 1)
    => TerminalCount(r) = 1

\* C19 amended: a request with a TRANSCRIPTION_STARTED entry has at most one
\* terminal entry by the time its response is returned: exactly one on the
\* 200 and 413 exits, none on the 400 exits, and on a 500 exit one only when
\* the fault came after the terminal entry (serializing the result).
C19_TerminalPerExit ==
  \A r \in Reqs :
    /\ TerminalCount(r) <= 1
    /\ (Responded(r) /\ CountOf(r, "TRANSCRIPTION_STARTED") >= 1)
       => /\ req[r].response.status \in {200, 413, 400, 500}
          /\ req[r].response.status \in {200, 413} => TerminalCount(r) = 1
          /\ req[r].response.status = 400 => TerminalCount(r) = 0
          /\ req[r].response.status = 500
               => TerminalCount(r) = IF req[r].fault = "jsonify" THEN 1 ELSE 0

C19_Witness ==
  \E r \in Reqs :
    /\ Responded(r) /\ CountOf(r, "TRANSCRIPTION_STARTED") = 1
    /\ req[r].response.status = 400
    /\ TerminalCount(r) = 0

\* C20: within a request the temporary file is created and holds the
\* upload before the Transcriber is invoked, exists while the Transcriber
\* runs, is deleted only after the Transcriber returned, and is gone when
\* the terminal audit entry is recorded and when the response is returned.
C20_FileStepOrder ==
  \A r \in Reqs :
    /\ req[r].pc \in {"invoke", "transcribing"}
         => /\ created[r] = 1 /\ TempFileExists(r)
            /\ fs[req[r].temp_path].data = req[r].in.audio.data
    /\ invoked[r] > 0 => created[r] = 1
    /\ (created[r] = 1 /\ ~TempFileExists(r)) => req[r].result # NoResult
    /\ (created[r] = 1 /\ TerminalCount(r) >= 1) => ~TempFileExists(r)
    /\ (Responded(r) /\ invoked[r] > 0) => ~TempFileExists(r)

C20_Witness ==
  \E r \in Reqs :
    /\ req[r].pc = "transcribing"
    /\ TempFileExists(r)
    /\ fs[req[r].temp_path].data = "pcm"
    /\ req[r].read = File("pcm")

====
